---- MODULE Spec2Model ----
(***************************************************************************)
(* Model of xyproto/datablock (datablock.go): a DataBlock holds a byte     *)
(* slice that is either plain or gzip-compressed, converts between the two *)
(* in place (Compress / Decompress), offers read-only views                *)
(* (UncompressedData / Gzipped / MustData) and serves itself over HTTP     *)
(* (ToClient).                                                             *)
(*                                                                         *)
(* Bytes are small integers.  A gzip member is modelled by its framing:    *)
(*   <<ID1, XFL>> \o body \o <<checksum(body)>>                            *)
(* where XFL records the compression level, the body is stored as is, and  *)
(* the trailer is a checksum over the body.  The reader rejects a stream   *)
(* that is too short, has the wrong magic byte or the wrong checksum.      *)
(***************************************************************************)
EXTENDS Integers, Sequences, FiniteSets, TLC

VARIABLES
    b,             \* the receiver *DataBlock (datablock.go:16-21)
    ctor,          \* what made b: "EmptyDataBlock" (:25), "NewDataBlock" (:30), "newDataBlockSpecified" (:36)
    arg,           \* the data argument the constructor was given (:30, :36)
    last,          \* the most recent call on b: operation, arguments, receiver before, results
    prev,          \* operation and returned error of the call before last
    resp,          \* w and the http.ServeContent call of the most recent ToClient (:132-166)
    exited,        \* log.Fatal has ended the process (:54, :140)
    encodeFaults,  \* the gzip writer may return an error in this run (:203-211)
    thresholds,    \* the gzipThreshold values callers pass to ToClient in this run (:132)
    reqs           \* ToClient calls running statement by statement on b: position and locals (:132-166)

vars == <<b, ctor, arg, last, prev, resp, exited, encodeFaults, thresholds, reqs>>

----------------------------------------------------------------------------
(* Bounds *)

MaxLen == 2          \* longest plain payload handed to a constructor
MaxThreshold == 3    \* gzipThreshold ranges over -1 .. MaxThreshold

Byte == 0 .. 1
Thresholds == (0 - 1) .. MaxThreshold

SeqsUpTo(S, n) == UNION {[1 .. k -> S] : k \in 0 .. n}

----------------------------------------------------------------------------
(* compress/gzip as used by gzipWrite and gunzipWrite *)

Nil == "nil"

ID1 == 31                         \* first byte of a gzip member (0x1f)
BestSpeed == 1                    \* gzip.BestSpeed
BestCompression == 9              \* gzip.BestCompression
ChecksumMod == 3

RECURSIVE Sum(_)
Sum(s) == IF s = <<>> THEN 0 ELSE Head(s) + Sum(Tail(s))

checksum(body) == (Sum(body) + Len(body)) % ChecksumMod

\* the XFL header byte the gzip writer derives from the level
xfl(level) == IF level = BestCompression THEN 2 ELSE IF level = BestSpeed THEN 4 ELSE 0

gzipMember(body, level) == <<ID1, xfl(level)>> \o body \o <<checksum(body)>>

\* Write gzipped data to a Writer. Returns bytes written and an error.
\* out is what the buffer holds once the deferred gw.Close() has run.
gzipWrite_noClose(data, speed, fail) ==
    LET level == IF speed THEN BestSpeed ELSE BestCompression IN
    IF fail
    THEN [out |-> <<>>, n |-> 0, err |-> "write error"]
    ELSE [out |-> <<ID1, xfl(level)>> \o data, n |-> Len(data), err |-> Nil]

gzipWrite(data, speed, fail) ==
    LET level == IF speed THEN BestSpeed ELSE BestCompression IN
    IF fail
    THEN [out |-> <<>>, n |-> 0, err |-> "write error"]
    ELSE [out |-> gzipMember(data, level), n |-> Len(data), err |-> Nil]

\* Write gunzipped data to a Writer. Returns bytes written and an error.
gunzipWrite(data) ==
    IF Len(data) < 2 \/ data[1] # ID1
    THEN [out |-> <<>>, n |-> 0, err |-> "gzip: invalid header"]
    ELSE IF Len(data) < 3
    THEN [out |-> <<>>, n |-> 0, err |-> "unexpected EOF"]
    ELSE LET body == SubSeq(data, 3, Len(data) - 1) IN
         IF data[Len(data)] # checksum(body)
         THEN [out |-> <<>>, n |-> 0, err |-> "gzip: invalid checksum"]
         ELSE [out |-> body, n |-> Len(body), err |-> Nil]

\* Compress data using gzip. Returns the data, data length and an error.
compress_bytesWritten(data, speed, fail) ==
    IF Len(data) = 0
    THEN [data |-> <<>>, n |-> 0, err |-> Nil]
    ELSE LET w == gzipWrite(data, speed, fail) IN
         IF w.err # Nil
         THEN [data |-> <<>>, n |-> 0, err |-> w.err]
         ELSE [data |-> w.out, n |-> w.n, err |-> Nil]

\* compress without the early return for empty data
compress_noEmptyCase(data, speed, fail) ==
    LET w == gzipWrite(data, speed, fail) IN
    IF w.err # Nil
    THEN [data |-> <<>>, n |-> 0, err |-> w.err]
    ELSE [data |-> w.out, n |-> Len(w.out), err |-> Nil]

compress(data, speed, fail) ==
    IF Len(data) = 0
    THEN [data |-> <<>>, n |-> 0, err |-> Nil]
    ELSE LET w == gzipWrite(data, speed, fail) IN
         IF w.err # Nil
         THEN [data |-> <<>>, n |-> 0, err |-> w.err]
         ELSE [data |-> w.out, n |-> Len(w.out), err |-> Nil]

\* Decompress data using gzip. Returns the data, data length and an error.
decompress(data) ==
    IF Len(data) = 0
    THEN [data |-> <<>>, n |-> 0, err |-> Nil]
    ELSE LET w == gunzipWrite(data) IN
         IF w.err # Nil
         THEN [data |-> <<>>, n |-> 0, err |-> w.err]
         ELSE [data |-> w.out, n |-> Len(w.out), err |-> Nil]

----------------------------------------------------------------------------
(* DataBlock and its constructors *)

DataBlock(data, compressed, length, compressionSpeed) ==
    [data |-> data, compressed |-> compressed, length |-> length,
     compressionSpeed |-> compressionSpeed]

EmptyDataBlock == DataBlock(<<>>, FALSE, 0, TRUE)

NewDataBlock(data, compressionSpeed) ==
    DataBlock(data, FALSE, Len(data), compressionSpeed)

newDataBlockSpecified(data, compressed, compressionSpeed) ==
    DataBlock(data, compressed, Len(data), compressionSpeed)

----------------------------------------------------------------------------
(* Methods of *DataBlock, as functions of the receiver u *)

UncompressedData(u) ==
    IF u.compressed
    THEN decompress(u.data)
    ELSE [data |-> u.data, n |-> u.length, err |-> Nil]

\* log.Fatal ends the process, so the return after it is never reached
MustData(u) ==
    IF u.compressed
    THEN LET r == decompress(u.data) IN
         IF r.err # Nil
         THEN [data |-> <<>>, returned |-> FALSE, log |-> "fatal"]
         ELSE [data |-> r.data, returned |-> TRUE, log |-> "none"]
    ELSE [data |-> u.data, returned |-> TRUE, log |-> "none"]

\* Gzipped that always compresses for speed
Gzipped_fixedSpeed(u, fail) ==
    IF ~u.compressed
    THEN compress(u.data, TRUE, fail)
    ELSE [data |-> u.data, n |-> u.length, err |-> Nil]

Gzipped(u, fail) ==
    IF ~u.compressed
    THEN compress(u.data, u.compressionSpeed, fail)
    ELSE [data |-> u.data, n |-> u.length, err |-> Nil]

Compress_noGuard(u, fail) ==
    LET r == compress(u.data, u.compressionSpeed, fail) IN
    IF r.err # Nil
    THEN [b |-> u, err |-> r.err]
    ELSE [b |-> [u EXCEPT !.data = r.data, !.compressed = TRUE, !.length = r.n],
          err |-> Nil]

Compress(u, fail) ==
    IF u.compressed
    THEN [b |-> u, err |-> Nil]
    ELSE LET r == compress(u.data, u.compressionSpeed, fail) IN
         IF r.err # Nil
         THEN [b |-> u, err |-> r.err]
         ELSE [b |-> [u EXCEPT !.data = r.data, !.compressed = TRUE, !.length = r.n],
               err |-> Nil]

\* Decompress that clears the flag before it looks at the error
Decompress_flagFirst(u) ==
    IF ~u.compressed
    THEN [b |-> u, err |-> Nil]
    ELSE LET r == decompress(u.data) IN
         IF r.err # Nil
         THEN [b |-> [u EXCEPT !.compressed = FALSE], err |-> r.err]
         ELSE [b |-> [u EXCEPT !.data = r.data, !.compressed = FALSE, !.length = r.n],
               err |-> Nil]

Decompress(u) ==
    IF ~u.compressed
    THEN [b |-> u, err |-> Nil]
    ELSE LET r == decompress(u.data) IN
         IF r.err # Nil
         THEN [b |-> u, err |-> r.err]
         ELSE [b |-> [u EXCEPT !.data = r.data, !.compressed = FALSE, !.length = r.n],
               err |-> Nil]

IsCompressed(u) == u.compressed

Length(u) == u.length

HasData(u) == 0 # u.length

----------------------------------------------------------------------------
(* http.Header, http.ResponseWriter and http.ServeContent *)

NoHeader == [ContentEncoding |-> <<>>, Vary |-> <<>>]

\* w.Header().Set("Content-Encoding", v)
SetContentEncoding(h, v) == [h EXCEPT !.ContentEncoding = <<v>>]

\* w.Header().Add("Vary", v)
AddVary(h, v) == [h EXCEPT !.Vary = Append(@, v)]

ZeroTime == "time.Time{}"

NoResponse ==
    [served |-> FALSE, header |-> NoHeader, content |-> <<>>, name |-> "",
     modtime |-> ZeroTime]

\* http.ServeContent(w, req, name, time.Time{}, filebuffer.New(b.data))
ServeContent(h, name, modtime, content) ==
    [served |-> TRUE, header |-> h, content |-> content, name |-> name,
     modtime |-> modtime]

\* a request that log.Fatal ended before ServeContent was reached
Aborted(h) ==
    [served |-> FALSE, header |-> h, content |-> <<>>, name |-> "",
     modtime |-> ZeroTime]

----------------------------------------------------------------------------
(* ToClient: result is the receiver afterwards, the response, what was logged *)

\* ToClient with the threshold comparison >= in place of >
ToClient_geq(u, name, canGzip, gzipThreshold, fail) ==
    LET overThreshold == Length(u) >= gzipThreshold IN
    IF ~canGzip
    THEN LET r == Decompress(u) IN
         IF r.err # Nil
         THEN [b |-> r.b, resp |-> Aborted(NoHeader), log |-> "fatal"]
         ELSE [b |-> r.b,
               resp |-> ServeContent(NoHeader, name, ZeroTime, r.b.data),
               log |-> "none"]
    ELSE IF u.compressed \/ overThreshold
    THEN LET h == AddVary(SetContentEncoding(NoHeader, "gzip"), "Accept-Encoding") IN
         IF overThreshold
         THEN LET r == Compress(u, fail) IN
              IF r.err # Nil
              THEN [b |-> r.b,
                    resp |-> ServeContent(SetContentEncoding(h, "identity"), name,
                                          ZeroTime, r.b.data),
                    log |-> "error"]
              ELSE [b |-> r.b, resp |-> ServeContent(h, name, ZeroTime, r.b.data),
                    log |-> "none"]
         ELSE [b |-> u, resp |-> ServeContent(h, name, ZeroTime, u.data),
               log |-> "none"]
    ELSE [b |-> u, resp |-> ServeContent(NoHeader, name, ZeroTime, u.data),
          log |-> "none"]

\* ToClient that sets the gzip headers only when over the threshold
ToClient_noBypass(u, name, canGzip, gzipThreshold, fail) ==
    LET overThreshold == Length(u) > gzipThreshold IN
    IF ~canGzip
    THEN LET r == Decompress(u) IN
         IF r.err # Nil
         THEN [b |-> r.b, resp |-> Aborted(NoHeader), log |-> "fatal"]
         ELSE [b |-> r.b,
               resp |-> ServeContent(NoHeader, name, ZeroTime, r.b.data),
               log |-> "none"]
    ELSE IF overThreshold
    THEN LET h == AddVary(SetContentEncoding(NoHeader, "gzip"), "Accept-Encoding") IN
         LET r == Compress(u, fail) IN
         IF r.err # Nil
         THEN [b |-> r.b,
               resp |-> ServeContent(SetContentEncoding(h, "identity"), name,
                                     ZeroTime, r.b.data),
               log |-> "error"]
         ELSE [b |-> r.b, resp |-> ServeContent(h, name, ZeroTime, r.b.data),
               log |-> "none"]
    ELSE [b |-> u, resp |-> ServeContent(NoHeader, name, ZeroTime, u.data),
          log |-> "none"]

\* ToClient that checks the data decompresses but serves the receiver as it is
ToClient_noDecompress(u, name, canGzip, gzipThreshold, fail) ==
    LET overThreshold == Length(u) > gzipThreshold IN
    IF ~canGzip
    THEN LET r == UncompressedData(u) IN
         IF r.err # Nil
         THEN [b |-> u, resp |-> Aborted(NoHeader), log |-> "fatal"]
         ELSE [b |-> u,
               resp |-> ServeContent(NoHeader, name, ZeroTime, u.data),
               log |-> "none"]
    ELSE IF u.compressed \/ overThreshold
    THEN LET h == AddVary(SetContentEncoding(NoHeader, "gzip"), "Accept-Encoding") IN
         IF overThreshold
         THEN LET r == Compress(u, fail) IN
              IF r.err # Nil
              THEN [b |-> r.b,
                    resp |-> ServeContent(SetContentEncoding(h, "identity"), name,
                                          ZeroTime, r.b.data),
                    log |-> "error"]
              ELSE [b |-> r.b, resp |-> ServeContent(h, name, ZeroTime, r.b.data),
                    log |-> "none"]
         ELSE [b |-> u, resp |-> ServeContent(h, name, ZeroTime, u.data),
               log |-> "none"]
    ELSE [b |-> u, resp |-> ServeContent(NoHeader, name, ZeroTime, u.data),
          log |-> "none"]

\* ToClient that reports a failed Decompress with log.Error and carries on
ToClient_logError(u, name, canGzip, gzipThreshold, fail) ==
    LET overThreshold == Length(u) > gzipThreshold IN
    IF ~canGzip
    THEN LET r == Decompress(u) IN
         IF r.err # Nil
         THEN [b |-> r.b,
               resp |-> ServeContent(NoHeader, name, ZeroTime, r.b.data),
               log |-> "error"]
         ELSE [b |-> r.b,
               resp |-> ServeContent(NoHeader, name, ZeroTime, r.b.data),
               log |-> "none"]
    ELSE IF u.compressed \/ overThreshold
    THEN LET h == AddVary(SetContentEncoding(NoHeader, "gzip"), "Accept-Encoding") IN
         IF overThreshold
         THEN LET r == Compress(u, fail) IN
              IF r.err # Nil
              THEN [b |-> r.b,
                    resp |-> ServeContent(SetContentEncoding(h, "identity"), name,
                                          ZeroTime, r.b.data),
                    log |-> "error"]
              ELSE [b |-> r.b, resp |-> ServeContent(h, name, ZeroTime, r.b.data),
                    log |-> "none"]
         ELSE [b |-> u, resp |-> ServeContent(h, name, ZeroTime, u.data),
               log |-> "none"]
    ELSE [b |-> u, resp |-> ServeContent(NoHeader, name, ZeroTime, u.data),
          log |-> "none"]

\* ToClient that leaves Content-Encoding: gzip in place when Compress fails
ToClient_keepGzipHeader(u, name, canGzip, gzipThreshold, fail) ==
    LET overThreshold == Length(u) > gzipThreshold IN
    IF ~canGzip
    THEN LET r == Decompress(u) IN
         IF r.err # Nil
         THEN [b |-> r.b, resp |-> Aborted(NoHeader), log |-> "fatal"]
         ELSE [b |-> r.b,
               resp |-> ServeContent(NoHeader, name, ZeroTime, r.b.data),
               log |-> "none"]
    ELSE IF u.compressed \/ overThreshold
    THEN LET h == AddVary(SetContentEncoding(NoHeader, "gzip"), "Accept-Encoding") IN
         IF overThreshold
         THEN LET r == Compress(u, fail) IN
              IF r.err # Nil
              THEN [b |-> r.b, resp |-> ServeContent(h, name, ZeroTime, r.b.data),
                    log |-> "error"]
              ELSE [b |-> r.b, resp |-> ServeContent(h, name, ZeroTime, r.b.data),
                    log |-> "none"]
         ELSE [b |-> u, resp |-> ServeContent(h, name, ZeroTime, u.data),
               log |-> "none"]
    ELSE [b |-> u, resp |-> ServeContent(NoHeader, name, ZeroTime, u.data),
          log |-> "none"]

ToClient(u, name, canGzip, gzipThreshold, fail) ==
    LET overThreshold == Length(u) > gzipThreshold IN
    IF ~canGzip
    THEN LET r == Decompress(u) IN
         IF r.err # Nil
         THEN [b |-> r.b, resp |-> Aborted(NoHeader), log |-> "fatal"]
         ELSE [b |-> r.b,
               resp |-> ServeContent(NoHeader, name, ZeroTime, r.b.data),
               log |-> "none"]
    ELSE IF u.compressed \/ overThreshold
    THEN LET h == AddVary(SetContentEncoding(NoHeader, "gzip"), "Accept-Encoding") IN
         IF overThreshold
         THEN LET r == Compress(u, fail) IN
              IF r.err # Nil
              THEN [b |-> r.b,
                    resp |-> ServeContent(SetContentEncoding(h, "identity"), name,
                                          ZeroTime, r.b.data),
                    log |-> "error"]
              ELSE [b |-> r.b, resp |-> ServeContent(h, name, ZeroTime, r.b.data),
                    log |-> "none"]
         ELSE [b |-> u, resp |-> ServeContent(h, name, ZeroTime, u.data),
               log |-> "none"]
    ELSE [b |-> u, resp |-> ServeContent(NoHeader, name, ZeroTime, u.data),
          log |-> "none"]

----------------------------------------------------------------------------
(* Inputs *)

Plain == SeqsUpTo(Byte, MaxLen)

Members == {gzipMember(d, l) : d \in Plain, l \in {BestSpeed, BestCompression}}

\* damaged gzip members: trailer cut off, magic byte overwritten, checksum off by one
Damaged ==
    {SubSeq(m, 1, Len(m) - 1) : m \in Members}
    \cup {[m EXCEPT ![1] = 0] : m \in Members}
    \cup {[m EXCEPT ![Len(m)] = (@ + 1) % ChecksumMod] : m \in Members}

Inputs == Plain \cup Members \cup Damaged

Names == {"index.html"}

FailChoices == IF encodeFaults THEN BOOLEAN ELSE {FALSE}

----------------------------------------------------------------------------
(* State machine.  Spec is the package as built: gzipWrite writes into a     *)
(* bytes.Buffer and returns no error.  SpecFault also takes the error        *)
(* returns of gzipWrite, injected by the environment.                        *)

Call(op, canGzip, gzipThreshold, data, n, err, log) ==
    [op |-> op, canGzip |-> canGzip, gzipThreshold |-> gzipThreshold, pre |-> b,
     data |-> data, n |-> n, err |-> err, log |-> log]

Constructed ==
    [op |-> "new", canGzip |-> FALSE, gzipThreshold |-> 0, pre |-> b,
     data |-> <<>>, n |-> 0, err |-> Nil, log |-> "none"]

Remember == prev' = [op |-> last.op, err |-> last.err]

InitBlock ==
    \/ /\ ctor = "EmptyDataBlock"
       /\ arg = <<>>
       /\ b = EmptyDataBlock
    \/ /\ ctor = "NewDataBlock"
       /\ \E d \in Plain \cup Members, s \in BOOLEAN :
            /\ arg = d
            /\ b = NewDataBlock(d, s)
    \/ /\ ctor = "newDataBlockSpecified"
       /\ \E d \in Inputs, c \in BOOLEAN, s \in BOOLEAN :
            /\ arg = d
            /\ b = newDataBlockSpecified(d, c, s)

Reqs == 1 .. 2

\* a ToClient call that has not been made yet
Idle ==
    [pc |-> "idle", canGzip |-> FALSE, gzipThreshold |-> 0, name |-> "",
     overThreshold |-> FALSE, data |-> <<>>, bytesWritten |-> 0,
     header |-> NoHeader, resp |-> NoResponse, log |-> "none",
     overlapped |-> FALSE]

InitRest ==
    /\ reqs = [r \in Reqs |-> Idle]
    /\ last = Constructed
    /\ prev = [op |-> "none", err |-> Nil]
    /\ resp = NoResponse
    /\ exited = FALSE

Init == InitBlock /\ InitRest /\ encodeFaults = FALSE /\ thresholds = Thresholds

InitFault == InitBlock /\ InitRest /\ encodeFaults = TRUE /\ thresholds = Thresholds

\* UncompressedData that decompresses the receiver in place
CallUncompressedData_inPlace ==
    /\ ~exited
    /\ LET r == UncompressedData(b) IN
         /\ last' = Call("UncompressedData", FALSE, 0, r.data, r.n, r.err, "none")
         /\ b' = Decompress(b).b
    /\ Remember
    /\ UNCHANGED <<ctor, arg, resp, exited, encodeFaults, thresholds, reqs>>

CallUncompressedData ==
    /\ ~exited
    /\ LET r == UncompressedData(b) IN
         last' = Call("UncompressedData", FALSE, 0, r.data, r.n, r.err, "none")
    /\ Remember
    /\ UNCHANGED <<b, ctor, arg, resp, exited, encodeFaults, thresholds, reqs>>

CallMustData ==
    /\ ~exited
    /\ LET r == MustData(b) IN
         /\ last' = Call("MustData", FALSE, 0, r.data, Len(r.data),
                         IF r.returned THEN Nil ELSE "exit", r.log)
         /\ exited' = (r.log = "fatal")
    /\ Remember
    /\ UNCHANGED <<b, ctor, arg, resp, encodeFaults, thresholds, reqs>>

CallGzipped ==
    /\ ~exited
    /\ \E fail \in FailChoices :
         LET r == Gzipped(b, fail) IN
           last' = Call("Gzipped", FALSE, 0, r.data, r.n, r.err, "none")
    /\ Remember
    /\ UNCHANGED <<b, ctor, arg, resp, exited, encodeFaults, thresholds, reqs>>

CallCompress ==
    /\ ~exited
    /\ \E fail \in FailChoices :
         LET r == Compress(b, fail) IN
           /\ b' = r.b
           /\ last' = Call("Compress", FALSE, 0, <<>>, 0, r.err, "none")
    /\ Remember
    /\ UNCHANGED <<ctor, arg, resp, exited, encodeFaults, thresholds, reqs>>

CallDecompress ==
    /\ ~exited
    /\ LET r == Decompress(b) IN
         /\ b' = r.b
         /\ last' = Call("Decompress", FALSE, 0, <<>>, 0, r.err, "none")
    /\ Remember
    /\ UNCHANGED <<ctor, arg, resp, exited, encodeFaults, thresholds, reqs>>

CallToClient ==
    /\ ~exited
    /\ \E name \in Names, canGzip \in BOOLEAN, gzipThreshold \in thresholds,
          fail \in FailChoices :
         LET r == ToClient(b, name, canGzip, gzipThreshold, fail) IN
           /\ b' = r.b
           /\ resp' = r.resp
           /\ exited' = (r.log = "fatal")
           /\ last' = Call("ToClient", canGzip, gzipThreshold, <<>>, 0, Nil, r.log)
    /\ Remember
    /\ UNCHANGED <<ctor, arg, encodeFaults, thresholds, reqs>>

Next ==
    \/ CallUncompressedData
    \/ CallMustData
    \/ CallGzipped
    \/ CallCompress
    \/ CallDecompress
    \/ CallToClient

Spec == Init /\ [][Next]_vars

SpecFault == InitFault /\ [][Next]_vars

----------------------------------------------------------------------------
(* ToClient statement by statement.  Each step is one read or one write of  *)
(* a field of b, together with the statements local to the call that       *)
(* follow it.  Two calls share b; nothing in the package orders them.       *)

Running(q) == q.pc \notin {"idle", "done", "aborted"}

\* line 133: overThreshold := b.Length() > gzipThreshold; line 136: if !canGzip
Begin(r) ==
    /\ ~exited
    /\ reqs[r].pc = "idle"
    /\ \E name \in Names, canGzip \in BOOLEAN, gzipThreshold \in thresholds :
         LET meets == \E o \in Reqs \ {r} : Running(reqs[o]) IN
         reqs' = [o \in Reqs |->
                    IF o = r
                    THEN [reqs[r] EXCEPT
                            !.pc = IF canGzip THEN "L142" ELSE "D94",
                            !.canGzip = canGzip,
                            !.gzipThreshold = gzipThreshold,
                            !.name = name,
                            !.overThreshold = Length(b) > gzipThreshold,
                            !.overlapped = meets]
                    ELSE [reqs[o] EXCEPT !.overlapped = @ \/ Running(reqs[o])]]
    /\ UNCHANGED <<b, ctor, arg, last, prev, resp, exited, encodeFaults, thresholds>>

\* Decompress, line 94: if !b.compressed { return nil }
DecompressGuard(r) ==
    /\ ~exited
    /\ reqs[r].pc = "D94"
    /\ reqs' = [reqs EXCEPT ![r].pc = IF ~b.compressed THEN "L165" ELSE "D97"]
    /\ UNCHANGED <<b, ctor, arg, last, prev, resp, exited, encodeFaults, thresholds>>

\* Decompress, lines 97-100: decompress(b.data); ToClient, line 140: log.Fatal
DecompressCall(r) ==
    /\ ~exited
    /\ reqs[r].pc = "D97"
    /\ LET d == decompress(b.data) IN
         IF d.err # Nil
         THEN /\ reqs' = [reqs EXCEPT ![r].pc = "aborted", ![r].log = "fatal",
                                      ![r].resp = Aborted(reqs[r].header)]
              /\ exited' = TRUE
         ELSE /\ reqs' = [reqs EXCEPT ![r].pc = "D101", ![r].data = d.data,
                                      ![r].bytesWritten = d.n]
              /\ UNCHANGED exited
    /\ UNCHANGED <<b, ctor, arg, last, prev, resp, encodeFaults, thresholds>>

\* Decompress, line 101: b.data = data
DecompressData(r) ==
    /\ ~exited
    /\ reqs[r].pc = "D101"
    /\ b' = [b EXCEPT !.data = reqs[r].data]
    /\ reqs' = [reqs EXCEPT ![r].pc = "D102"]
    /\ UNCHANGED <<ctor, arg, last, prev, resp, exited, encodeFaults, thresholds>>

\* Decompress, line 102: b.compressed = false
DecompressFlag(r) ==
    /\ ~exited
    /\ reqs[r].pc = "D102"
    /\ b' = [b EXCEPT !.compressed = FALSE]
    /\ reqs' = [reqs EXCEPT ![r].pc = "D103"]
    /\ UNCHANGED <<ctor, arg, last, prev, resp, exited, encodeFaults, thresholds>>

\* Decompress, line 103: b.length = bytesWritten
DecompressLength(r) ==
    /\ ~exited
    /\ reqs[r].pc = "D103"
    /\ b' = [b EXCEPT !.length = reqs[r].bytesWritten]
    /\ reqs' = [reqs EXCEPT ![r].pc = "L165"]
    /\ UNCHANGED <<ctor, arg, last, prev, resp, exited, encodeFaults, thresholds>>

\* lines 142-150: else if b.compressed || overThreshold { set the headers; if overThreshold
Headers(r) ==
    /\ ~exited
    /\ reqs[r].pc = "L142"
    /\ reqs' = [reqs EXCEPT ![r] =
         IF b.compressed \/ @.overThreshold
         THEN [@ EXCEPT
                 !.header = AddVary(SetContentEncoding(@, "gzip"), "Accept-Encoding"),
                 !.pc = IF reqs[r].overThreshold THEN "C79" ELSE "L165"]
         ELSE [@ EXCEPT !.pc = "L165"]]
    /\ UNCHANGED <<b, ctor, arg, last, prev, resp, exited, encodeFaults, thresholds>>

\* Compress, line 79: if b.compressed { return nil }
CompressGuard(r) ==
    /\ ~exited
    /\ reqs[r].pc = "C79"
    /\ reqs' = [reqs EXCEPT ![r].pc = IF b.compressed THEN "L165" ELSE "C82"]
    /\ UNCHANGED <<b, ctor, arg, last, prev, resp, exited, encodeFaults, thresholds>>

\* the failure branch of CompressCall with ServeContent called before the override
CompressCall_serveFirst(r) ==
    /\ ~exited
    /\ reqs[r].pc = "C82"
    /\ \E fail \in FailChoices :
         LET c == compress(b.data, b.compressionSpeed, fail) IN
         reqs' = [reqs EXCEPT ![r] =
           IF c.err # Nil
           THEN [@ EXCEPT !.log = "error",
                          !.resp = ServeContent(@.header, @.name, ZeroTime, b.data),
                          !.header = SetContentEncoding(@, "identity"),
                          !.pc = "done"]
           ELSE [@ EXCEPT !.data = c.data, !.bytesWritten = c.n, !.pc = "C86"]]
    /\ UNCHANGED <<b, ctor, arg, last, prev, resp, exited, encodeFaults, thresholds>>

\* Compress, lines 82-85: compress(b.data, b.compressionSpeed);
\* ToClient, lines 152-156: on error log.Error and Content-Encoding: identity
CompressCall(r) ==
    /\ ~exited
    /\ reqs[r].pc = "C82"
    /\ \E fail \in FailChoices :
         LET c == compress(b.data, b.compressionSpeed, fail) IN
         reqs' = [reqs EXCEPT ![r] =
           IF c.err # Nil
           THEN [@ EXCEPT !.log = "error",
                          !.header = SetContentEncoding(@, "identity"),
                          !.pc = "L165"]
           ELSE [@ EXCEPT !.data = c.data, !.bytesWritten = c.n, !.pc = "C86"]]
    /\ UNCHANGED <<b, ctor, arg, last, prev, resp, exited, encodeFaults, thresholds>>

\* Compress, line 86: b.data = data
CompressData(r) ==
    /\ ~exited
    /\ reqs[r].pc = "C86"
    /\ b' = [b EXCEPT !.data = reqs[r].data]
    /\ reqs' = [reqs EXCEPT ![r].pc = "C87"]
    /\ UNCHANGED <<ctor, arg, last, prev, resp, exited, encodeFaults, thresholds>>

\* Compress, line 87: b.compressed = true
CompressFlag(r) ==
    /\ ~exited
    /\ reqs[r].pc = "C87"
    /\ b' = [b EXCEPT !.compressed = TRUE]
    /\ reqs' = [reqs EXCEPT ![r].pc = "C88"]
    /\ UNCHANGED <<ctor, arg, last, prev, resp, exited, encodeFaults, thresholds>>

\* Compress, line 88: b.length = bytesWritten
CompressLength(r) ==
    /\ ~exited
    /\ reqs[r].pc = "C88"
    /\ b' = [b EXCEPT !.length = reqs[r].bytesWritten]
    /\ reqs' = [reqs EXCEPT ![r].pc = "L165"]
    /\ UNCHANGED <<ctor, arg, last, prev, resp, exited, encodeFaults, thresholds>>

\* line 165: http.ServeContent(w, req, name, time.Time{}, filebuffer.New(b.data))
Serve(r) ==
    /\ ~exited
    /\ reqs[r].pc = "L165"
    /\ reqs' = [reqs EXCEPT ![r].pc = "done",
                            ![r].resp = ServeContent(reqs[r].header, reqs[r].name,
                                                     ZeroTime, b.data)]
    /\ UNCHANGED <<b, ctor, arg, last, prev, resp, exited, encodeFaults, thresholds>>

InitConc ==
    /\ InitBlock
    /\ InitRest
    /\ encodeFaults = TRUE
    /\ \E t \in Thresholds : thresholds = {t}

NextConc ==
    \E r \in Reqs :
        \/ Begin(r)
        \/ DecompressGuard(r)
        \/ DecompressCall(r)
        \/ DecompressData(r)
        \/ DecompressFlag(r)
        \/ DecompressLength(r)
        \/ Headers(r)
        \/ CompressGuard(r)
        \/ CompressCall(r)
        \/ CompressData(r)
        \/ CompressFlag(r)
        \/ CompressLength(r)
        \/ Serve(r)

SpecConc == InitConc /\ [][NextConc]_vars

\* One block from NewDataBlock served again and again by ToClient, every call
\* with the same configured gzipThreshold.
InitServe ==
    /\ ctor = "NewDataBlock"
    /\ \E d \in Plain \cup Members, s \in BOOLEAN :
         /\ arg = d
         /\ b = NewDataBlock(d, s)
    /\ InitRest
    /\ encodeFaults = FALSE
    /\ \E t \in Thresholds : thresholds = {t}

NextServe == CallToClient

SpecServe == InitServe /\ [][NextServe]_vars

TypeOK ==
    /\ b.data \in Seq(Int)
    /\ b.compressed \in BOOLEAN
    /\ b.length \in Int
    /\ b.compressionSpeed \in BOOLEAN
    /\ exited \in BOOLEAN

----------------------------------------------------------------------------
(* Properties *)

GzipHeaders(h) ==
    /\ h.ContentEncoding = <<"gzip">>
    /\ h.Vary = <<"Accept-Encoding">>

\* p is a gzip stream that decodes to d
HoldsGzipOf(p, d) == gunzipWrite(p).err = Nil /\ gunzipWrite(p).out = d

\* C1: in every reachable state, after successful and failed calls alike, the
\* length field equals the number of bytes of the payload.
LengthIsLenOfData == b.length = Len(b.data)

LengthIsLenOfData_witness ==
    /\ last.op = "Compress"
    /\ ~last.pre.compressed
    /\ b.compressed
    /\ Len(b.data) > 0
    /\ b.length # last.pre.length

\* C2: for a block made by NewDataBlock(d), the compressed flag is true exactly
\* when the payload holds the gzip encoding of d, empty payloads included.
FlagMatchesEncoding ==
    ctor = "NewDataBlock" => (b.compressed <=> HoldsGzipOf(b.data, arg))

\* C3: NewDataBlock(d), then Compress, then Decompress: neither call returns an
\* error and the block is uncompressed again with payload d and length len(d).
RoundTrip ==
    (ctor = "NewDataBlock" /\ prev.op = "Compress" /\ last.op = "Decompress") =>
        /\ prev.err = Nil
        /\ last.err = Nil
        /\ ~b.compressed
        /\ b.data = arg
        /\ b.length = Len(arg)

RoundTrip_witness ==
    /\ ctor = "NewDataBlock"
    /\ prev.op = "Compress"
    /\ last.op = "Decompress"
    /\ last.pre.compressed
    /\ last.pre.data # arg
    /\ Len(arg) > 0
    /\ b.data = arg

\* C4: Compress on a compressed block and Decompress on an uncompressed block
\* return no error and change nothing; of two consecutive calls of the same
\* operation the second changes nothing.
Idempotent ==
    /\ (last.op = "Compress" /\ last.pre.compressed) =>
           (last.err = Nil /\ b = last.pre)
    /\ (last.op = "Decompress" /\ ~last.pre.compressed) =>
           (last.err = Nil /\ b = last.pre)
    /\ (last.op \in {"Compress", "Decompress"} /\ prev.op = last.op) =>
           b = last.pre

Idempotent_witness ==
    /\ prev.op = "Compress"
    /\ last.op = "Compress"
    /\ last.pre.compressed
    /\ HoldsGzipOf(b.data, arg)
    /\ Len(arg) > 0

\* C5: ToClient for a gzip-capable client on an uncompressed block compresses it
\* and sets the gzip headers exactly when its length is greater than
\* gzipThreshold; otherwise block and headers are left alone.
ThresholdBoundary ==
    (last.op = "ToClient" /\ last.canGzip /\ ~last.pre.compressed) =>
        /\ (last.pre.length > last.gzipThreshold) <=>
               (b.compressed /\ GzipHeaders(resp.header))
        /\ (last.pre.length > last.gzipThreshold) =>
               /\ UncompressedData(b).err = Nil
               /\ UncompressedData(b).data = last.pre.data
        /\ (last.pre.length <= last.gzipThreshold) =>
               /\ b = last.pre
               /\ resp.header = NoHeader

ThresholdBoundary_witness ==
    /\ last.op = "ToClient"
    /\ last.canGzip
    /\ ~last.pre.compressed
    /\ last.pre.length = last.gzipThreshold + 1
    /\ last.pre.length > 0
    /\ b.compressed
    /\ HoldsGzipOf(b.data, last.pre.data)

\* C6: ToClient for a gzip-capable client on a block flagged compressed sets
\* Content-Encoding: gzip and Vary: Accept-Encoding whatever the threshold.
CompressedBypass ==
    (last.op = "ToClient" /\ last.canGzip /\ last.pre.compressed) =>
        /\ resp.served
        /\ GzipHeaders(resp.header)

CompressedBypass_witness ==
    /\ last.op = "ToClient"
    /\ last.canGzip
    /\ last.pre.compressed
    /\ last.pre.length > 0
    /\ last.pre.length <= last.gzipThreshold
    /\ resp.served

\* C7: ToClient for a client without gzip on a compressed block holding valid
\* gzip data leaves the block uncompressed, hands the uncompressed bytes to
\* ServeContent and sets no Content-Encoding.
NoGzipForcesUncompressed ==
    (last.op = "ToClient" /\ ~last.canGzip /\ last.pre.compressed
        /\ gunzipWrite(last.pre.data).err = Nil) =>
        /\ ~b.compressed
        /\ b.data = gunzipWrite(last.pre.data).out
        /\ b.length = Len(b.data)
        /\ resp.served
        /\ resp.content = gunzipWrite(last.pre.data).out
        /\ resp.header.ContentEncoding = <<>>

NoGzipForcesUncompressed_witness ==
    /\ last.op = "ToClient"
    /\ ~last.canGzip
    /\ last.pre.compressed
    /\ gunzipWrite(last.pre.data).err = Nil
    /\ Len(resp.content) > 0
    /\ resp.served

EncodeFailureFallback ==
    (last.op = "ToClient" /\ last.canGzip /\ ~last.pre.compressed
        /\ last.pre.length > last.gzipThreshold /\ last.log = "error") =>
        /\ ~exited
        /\ resp.served
        /\ resp.header.ContentEncoding = <<"identity">>
        /\ b = last.pre
        /\ resp.content = last.pre.data

EncodeFailureFallback_witness ==
    /\ last.op = "ToClient"
    /\ last.canGzip
    /\ ~last.pre.compressed
    /\ last.pre.length > last.gzipThreshold
    /\ last.log = "error"
    /\ resp.served
    /\ Len(resp.content) > 0

\* C10: EmptyDataBlock keeps its initial fields (empty, false, 0, true) whatever
\* operations are invoked on it.
SentinelNeverMutated ==
    ctor = "EmptyDataBlock" =>
        /\ b.data = <<>>
        /\ b.compressed = FALSE
        /\ b.length = 0
        /\ b.compressionSpeed = TRUE

\* C11: MustData on a block flagged compressed whose bytes are not valid gzip
\* does not end the process: it returns an empty slice; otherwise it returns
\* the uncompressed data.
MustDataReturnsEmpty ==
    last.op = "MustData" =>
        /\ ~exited
        /\ last.err = Nil
        /\ last.data = IF UncompressedData(last.pre).err # Nil
                       THEN <<>>
                       ELSE UncompressedData(last.pre).data

\* C12: UncompressedData, Gzipped and MustData leave the receiver as it was,
\* whether they succeed or fail.
ViewsReadOnly ==
    last.op \in {"UncompressedData", "Gzipped", "MustData"} => b = last.pre

ViewsReadOnly_witness ==
    /\ last.op = "UncompressedData"
    /\ last.pre.compressed
    /\ last.err = Nil
    /\ Len(last.data) > 0
    /\ b.compressed
    /\ b.data # last.data

\* C13: a Compress or Decompress that returns an error leaves the receiver
\* exactly as it was, and Decompress on non-empty bytes that are not valid
\* gzip does return an error.
FailedConversionKeepsBlock ==
    /\ (last.op \in {"Compress", "Decompress"} /\ last.err # Nil) => b = last.pre
    /\ (last.op = "Decompress" /\ last.pre.compressed /\ last.pre.data # <<>>
           /\ gunzipWrite(last.pre.data).err # Nil) =>
           (last.err # Nil /\ b.compressed)
    /\ (last.op = "Compress" /\ last.err # Nil) => ~b.compressed

FailedConversionKeepsBlock_witness ==
    /\ last.op = "Decompress"
    /\ last.pre.compressed
    /\ last.pre.data # <<>>
    /\ last.err # Nil
    /\ b.compressed

\* C14: a block made from an empty slice has HasData() false and Length() 0,
\* and keeps an empty payload and length 0 through every Compress and
\* Decompress, none of which returns an error.
EmptyStaysEmpty ==
    (ctor = "NewDataBlock" /\ arg = <<>>) =>
        /\ ~HasData(b)
        /\ Length(b) = 0
        /\ b.data = <<>>
        /\ last.op \in {"Compress", "Decompress"} => last.err = Nil

EmptyStaysEmpty_witness ==
    /\ ctor = "NewDataBlock"
    /\ arg = <<>>
    /\ prev.op = "Compress"
    /\ last.op = "Decompress"
    /\ last.pre.compressed
    /\ ~b.compressed

\* C15: a ToClient call that reaches ServeContent carries Content-Encoding:
\* gzip exactly when the block is flagged compressed as its bytes are handed
\* over; a client without gzip never gets bytes of a block flagged compressed.
HeaderMatchesFlag ==
    (last.op = "ToClient" /\ resp.served) =>
        /\ (resp.header.ContentEncoding = <<"gzip">>) <=> b.compressed
        /\ resp.content = b.data
        /\ ~last.canGzip => ~b.compressed

HeaderMatchesFlag_witness ==
    /\ last.op = "ToClient"
    /\ resp.served
    /\ last.log = "error"
    /\ last.gzipThreshold < 0
    /\ resp.header.ContentEncoding = <<"identity">>

\* C19: ToClient for a gzip-capable client on a block already compressed
\* leaves payload, flag and length alone whatever the threshold, and never
\* turns a compressed block into an uncompressed one.
NoDoubleCompression ==
    (last.op = "ToClient" /\ last.canGzip /\ last.pre.compressed) => b = last.pre

NoDoubleCompression_witness ==
    /\ last.op = "ToClient"
    /\ last.canGzip
    /\ last.pre.compressed
    /\ last.pre.length > last.gzipThreshold
    /\ last.pre.length > 0
    /\ resp.served

\* C20: Gzipped returns what the block holds after Compress on the same state
\* and fails when Compress fails; UncompressedData returns what the block holds
\* after Decompress; the returned length is the number of returned bytes.
ViewsAgreeWithMutation ==
    /\ last.op = "Gzipped" =>
           LET c == Compress(last.pre, last.err # Nil) IN
           /\ (last.err # Nil) <=> (c.err # Nil)
           /\ last.err = Nil => (last.data = c.b.data /\ last.n = c.b.length)
           /\ last.n = Len(last.data)
    /\ last.op = "UncompressedData" =>
           LET d == Decompress(last.pre) IN
           /\ last.err = d.err
           /\ last.err = Nil => (last.data = d.b.data /\ last.n = d.b.length)
           /\ last.n = Len(last.data)

ViewsAgreeWithMutation_witness ==
    /\ last.op = "Gzipped"
    /\ ~last.pre.compressed
    /\ ~last.pre.compressionSpeed
    /\ last.err = Nil
    /\ HoldsGzipOf(last.data, last.pre.data)
    /\ Len(last.pre.data) > 0

\* C16: for a block from NewDataBlock(d) served only by ToClient with one
\* threshold T, every response to a gzip-capable client is gzip-encoded (gzip
\* headers, bytes that are the gzip encoding of d) exactly when len(d) > T,
\* and every response to a client without gzip is d with no Content-Encoding.
ServingHistoryIndependent ==
    last.op = "ToClient" =>
        /\ resp.served
        /\ IF ~last.canGzip
           THEN resp.content = arg /\ resp.header.ContentEncoding = <<>>
           ELSE IF Len(arg) > last.gzipThreshold
           THEN GzipHeaders(resp.header) /\ HoldsGzipOf(resp.content, arg)
           ELSE resp.header = NoHeader /\ resp.content = arg

\* the response of call q does not say what its bytes are: gzip announced over
\* the plain bytes d, or nothing announced over the gzip encoding of d
Mismatch(q) ==
    /\ ctor \in {"NewDataBlock", "EmptyDataBlock"}
    /\ q.pc = "done"
    /\ q.resp.served
    /\ \/ q.resp.header.ContentEncoding = <<"gzip">> /\ q.resp.content = arg
       \/ q.resp.header.ContentEncoding = <<>> /\ HoldsGzipOf(q.resp.content, arg)

\* C17: two ToClient calls on one block can interleave so that a response
\* announces gzip over uncompressed bytes, or nothing over gzip bytes; when the
\* calls do not overlap no such response is produced.
NoMismatchWhenSerial ==
    \A r \in Reqs : Mismatch(reqs[r]) => reqs[r].overlapped

\* C18: a ToClient call that is not aborted invokes ServeContent exactly once,
\* as its last statement, after its writes to the block and to the headers,
\* with the block's payload of that moment, the given name and the zero time;
\* the headers are not changed afterwards.
DeliveryInv ==
    \A r \in Reqs :
        LET q == reqs[r] IN
        /\ q.resp.served => q.pc = "done"
        /\ q.pc = "done" =>
               /\ q.resp.served
               /\ q.resp.header = q.header
               /\ q.resp.name = q.name
               /\ q.resp.modtime = ZeroTime
        /\ (q.pc = "done" /\ q.log = "error") =>
               q.resp.header.ContentEncoding = <<"identity">>
        /\ q.pc = "aborted" => ~q.resp.served

DeliveryStep ==
    \A r \in Reqs :
        /\ reqs[r].pc = "done" => reqs'[r] = reqs[r]
        /\ (reqs[r].pc # "done" /\ reqs'[r].pc = "done") =>
               /\ reqs'[r].resp.content = b.data
               /\ b' = b

DeliveryLast == []DeliveryInv /\ [][DeliveryStep]_vars

DeliveryLast_witness ==
    \E r \in Reqs :
        /\ reqs[r].pc = "done"
        /\ reqs[r].log = "error"
        /\ reqs[r].resp.served
        /\ reqs[r].resp.header.ContentEncoding = <<"identity">>
        /\ Len(reqs[r].resp.content) > 0

====
